---- MODULE Spec2Model ----
(***************************************************************************)
(* UnboundedSizeDenseStore (src/store/unbounded.rs): a dense, growable,    *)
(* offset-indexed array of bucket counts.  The store's fields are the      *)
(* variables counts, offset, min_index and max_index; the remaining        *)
(* variables are history variables that record what the callers did, so    *)
(* that the properties of the store can be stated against its inputs.      *)
(*                                                                         *)
(* counts is a Vec<f64>; the model stores integer-valued weights, which    *)
(* f64 represents exactly.  Buffer position p (0-based in the code) is     *)
(* element p + 1 of the TLA+ sequence.                                     *)
(***************************************************************************)
EXTENDS Integers, Sequences, FiniteSets, TLC

\* ---------------------------------------------------------------- bounds
\* Sum over the buckets of |net weight inserted since the last clear|.
MaxTotal == 4

\* Bucket indices the callers use: two close ones and two far ones, one on
\* each side, so that inserting them forces a shift without growth (span
\* <= 58), growth to 128 positions (span 89 or 96) and growth to 192 (span 146).
Indices == {-45, 5, 12, 100}
\* Weights the callers pass to add and add_bin.
Weights == {-2, -1, 0, 1, 2}

\* ------------------------------------------------------ program constants
I32_MAX == 2147483647
I32_MIN == -2147483647 - 1
array_length_growth_increment == 64
array_length_overhead == 6

VARIABLES counts, offset, min_index, max_index, panicked, overflowed, build,
          centered,
          added, seen, onlyAdds, everInserted, lastOp,
          paired, twin

store == <<counts, offset, min_index, max_index>>
vars == <<counts, offset, min_index, max_index, panicked, overflowed, build,
          centered,
          added, seen, onlyAdds, everInserted, lastOp,
          paired, twin>>

\* The struct as one value, for the helper functions that take &self.  Four
\* fields are not fields of the struct:
\*   panicked    the operation was aborted by a panic: an indexing expression
\*               counts[p] with p outside 0 .. len - 1, or an i32 overflow in
\*               a build that checks overflow; the steps after it do not run;
\*   overflowed  an i32 addition, subtraction or multiplication of the current
\*               operation left the i32 range;
\*   build       what the build does on i32 overflow: "debug" panics,
\*               "release" wraps; "any" while no overflow has shown which;
\*   centered    the trace of the current operation: the shifts center_counts
\*               passed to shift_counts, none at the start of an operation.
Self == [counts |-> counts, offset |-> offset,
         min_index |-> min_index, max_index |-> max_index,
         panicked |-> panicked, overflowed |-> FALSE, build |-> build,
         centered |-> << >>]

\* ---------------------------------------------------------------- helpers
Min2(a, b) == IF a <= b THEN a ELSE b
Max2(a, b) == IF a >= b THEN a ELSE b
Abs(a) == IF a < 0 THEN -a ELSE a

\* Rust's integer division: truncation toward zero (a is never i32::MIN here
\* with b = -1, the one quotient that overflows).
Div(a, b) == IF a >= 0 THEN a \div b
             ELSE IF a = I32_MIN THEN -((-(a + b)) \div b) - 1
             ELSE -((-a) \div b)

\* i32 arithmetic on values of the i32 range.  AddOvf / SubOvf / MulOvf say
\* whether the exact result leaves the range; Add32 / Sub32 / Mul32 are the
\* two's complement results, computed without leaving the range on the way.
AddOvf(a, b) == IF b >= 0 THEN a > I32_MAX - b ELSE a < I32_MIN - b
SubOvf(a, b) == IF b >= 0 THEN a < I32_MIN + b ELSE a > I32_MAX + b
Add32(a, b) ==
    IF ~AddOvf(a, b) THEN a + b
    ELSE IF b >= 0 THEN ((a - I32_MAX) + (b - 1)) + I32_MIN
    ELSE ((a - I32_MIN) + (b + 1)) + I32_MAX
Sub32(a, b) ==
    IF ~SubOvf(a, b) THEN a - b
    ELSE IF b >= 0 THEN ((a - I32_MIN) - (b - 1)) + I32_MAX
    ELSE ((a - I32_MAX) - (b + 1)) + I32_MIN
\* Used for (quotient + 1) * increment with increment > 0; the one product
\* that leaves the range is 2^25 * 64 = 2^31, which wraps to i32::MIN.
MulOvf(a, b) == a > I32_MAX \div b
Mul32(a, b) == IF MulOvf(a, b) THEN I32_MIN ELSE a * b

\* The effect of an i32 operation whose result left the range (ovf).
overflow(s, ovf) ==
    IF ovf /\ ~s.panicked
    THEN [s EXCEPT !.overflowed = TRUE, !.panicked = (s.build = "debug")]
    ELSE s

\* Whether counts[p as usize] is inside the vector (a negative p becomes a
\* huge usize, which is outside too).
InBounds(s, p) == 0 <= p /\ p < Len(s.counts)

\* Vec::resize(new_len, 0.0): truncates or pads with zeros.
resize(c, new_len) ==
    IF new_len <= Len(c) THEN SubSeq(c, 1, new_len)
    ELSE c \o [k \in 1 .. (new_len - Len(c)) |-> 0]

is_empty(s) == s.max_index < s.min_index

get_length(s) == Len(s.counts)

\* get_new_length without the rounding up to the growth increment.
get_new_length_exact(s, new_min_index, new_max_index) ==
    [value |-> (new_max_index - new_min_index) + 1 + array_length_overhead,
     ovf |-> FALSE]

\* get_new_length that rounds desired_length + overhead down to a multiple
\* of the increment and adds one increment.
get_new_length_round_down(s, new_min_index, new_max_index) ==
    LET padded == (new_max_index - new_min_index) + 1 + array_length_overhead
    IN  [value |-> (Div(padded, array_length_growth_increment) + 1)
                    * array_length_growth_increment,
         ovf |-> FALSE]

\* The new length and whether an i32 operation computing it overflowed.  The
\* difference is taken in i64 and cast with `as i32`, which truncates without
\* a check: that is the wrapping difference.
get_new_length(s, new_min_index, new_max_index) ==
    LET diff == Sub32(new_max_index, new_min_index)
        desired_length == Add32(diff, 1)
        padded == Add32(desired_length, array_length_overhead)
        padded1 == Sub32(padded, 1)
        quotient1 == Add32(Div(padded1, array_length_growth_increment), 1)
    IN  [value |-> Mul32(quotient1, array_length_growth_increment),
         ovf |-> \/ AddOvf(diff, 1)
                 \/ AddOvf(desired_length, array_length_overhead)
                 \/ SubOvf(padded, 1)
                 \/ AddOvf(Div(padded1, array_length_growth_increment), 1)
                 \/ MulOvf(quotient1, array_length_growth_increment)]

\* One iteration of either loop of array_copy.
copy_one(s, src_pos, dest_pos, off) ==
    IF s.panicked THEN s
    ELSE IF AddOvf(src_pos, off) \/ AddOvf(dest_pos, off)
    THEN \* the sum panics, or wraps to a negative position
         [s EXCEPT !.overflowed = TRUE, !.panicked = TRUE]
    ELSE IF InBounds(s, src_pos + off) /\ InBounds(s, dest_pos + off)
    THEN [s EXCEPT !.counts[dest_pos + off + 1] = s.counts[src_pos + off + 1]]
    ELSE [s EXCEPT !.panicked = TRUE]

\* The backward loop of array_copy (src_pos < dest_pos): the iterations for
\* offset = hi, hi - 1, ..., lo in that order, each on the buffer the
\* previous one left (the run is split in two to keep the evaluation shallow).
RECURSIVE copy_backward(_, _, _, _, _)
copy_backward(s, src_pos, dest_pos, lo, hi) ==
    IF hi < lo THEN s
    ELSE IF lo = hi THEN copy_one(s, src_pos, dest_pos, lo)
    ELSE LET mid == lo + (hi - lo) \div 2
             upper == copy_backward(s, src_pos, dest_pos, mid + 1, hi)
         IN  IF upper.panicked THEN upper
             ELSE copy_backward(upper, src_pos, dest_pos, lo, mid)

\* The forward loop of array_copy (src_pos > dest_pos): the iterations for
\* offset = lo, lo + 1, ..., hi in that order.
RECURSIVE copy_forward(_, _, _, _, _)
copy_forward(s, src_pos, dest_pos, lo, hi) ==
    IF hi < lo THEN s
    ELSE IF lo = hi THEN copy_one(s, src_pos, dest_pos, lo)
    ELSE LET mid == lo + (hi - lo) \div 2
             lower == copy_forward(s, src_pos, dest_pos, lo, mid)
         IN  IF lower.panicked THEN lower
             ELSE copy_forward(lower, src_pos, dest_pos, mid + 1, hi)

\* array_copy with the forward loop in both cases, as a copy that does not
\* choose its direction would be.
array_copy_forward_only(s, src_pos, dest_pos, length) ==
    IF src_pos = dest_pos THEN s
    ELSE copy_forward(s, src_pos, dest_pos, 0, length - 1)

array_copy(s, src_pos, dest_pos, length) ==
    IF src_pos < dest_pos
    THEN copy_backward(s, src_pos, dest_pos, 0, length - 1)
    ELSE IF src_pos > dest_pos
    THEN copy_forward(s, src_pos, dest_pos, 0, length - 1)
    ELSE s

\* fill that leaves the slice as it is.
fill_zero_nothing(s, from, to) == s

\* for index in from..to { self.counts[index as usize] = 0.0 }: the positions
\* are written in ascending order up to the first one outside the vector.
fill_zero(s, from, to) ==
    IF s.panicked \/ from >= to THEN s
    ELSE IF from < 0 THEN [s EXCEPT !.panicked = TRUE]
    ELSE [s EXCEPT
            !.counts = [p \in 1 .. Len(s.counts) |->
                          IF from <= p - 1 /\ p - 1 < to THEN 0 ELSE s.counts[p]],
            !.panicked = (to > Len(s.counts))]

\* shift_counts, first part: the positions of the live slice and the block
\* copy.  A store that has panicked passes unchanged through every step.
shift_copy(s, shift) ==
    LET min_array_index == Sub32(s.min_index, s.offset)
        max_array_index == Sub32(s.max_index, s.offset)
        length1 == Sub32(max_array_index, min_array_index)
    IN  array_copy(overflow(s, \/ SubOvf(s.min_index, s.offset)
                               \/ SubOvf(s.max_index, s.offset)
                               \/ AddOvf(min_array_index, shift)
                               \/ SubOvf(max_array_index, min_array_index)
                               \/ AddOvf(length1, 1)),
                   min_array_index,
                   Add32(min_array_index, shift),
                   Add32(length1, 1))

\* shift_counts, second part: the zero-fill, on the store t the copy left;
\* s is the store at the start of shift_counts.
shift_fill(t, s, shift) ==
    LET min_array_index == Sub32(s.min_index, s.offset)
        max_array_index == Sub32(s.max_index, s.offset)
        end1 == Add32(max_array_index, 1)
    IN  IF shift > 0
        THEN fill_zero(t, min_array_index, Add32(min_array_index, shift))
        ELSE fill_zero(overflow(t, \/ AddOvf(max_array_index, 1)
                                   \/ AddOvf(end1, shift)),
                       Add32(end1, shift), end1)

\* shift_counts, last statement: self.offset -= shift.
shift_offset(t, s, shift) ==
    IF t.panicked THEN t
    ELSE IF SubOvf(s.offset, shift) /\ t.build = "debug"
    THEN [t EXCEPT !.overflowed = TRUE, !.panicked = TRUE]
    ELSE [t EXCEPT !.overflowed = @ \/ SubOvf(s.offset, shift),
                   !.offset = Sub32(s.offset, shift)]

\* shift_counts that ends with  self.offset += shift.
shift_counts_offset_plus(s, shift) ==
    shift_offset(shift_fill(shift_copy(s, shift), s, shift), s, -shift)

shift_counts(s, shift) ==
    shift_offset(shift_fill(shift_copy(s, shift), s, shift), s, shift)

\* center_counts, last statements: the new range, on the store t that
\* shift_counts(shift) left.
set_range(t, new_min_index, new_max_index, shift) ==
    IF t.panicked THEN t
    ELSE [t EXCEPT !.min_index = new_min_index,
                   !.max_index = new_max_index,
                   !.centered = Append(@, shift)]

\* center_counts that aligns new_min_index, not the middle of the range, with
\* the middle of the buffer.
center_counts_at_min(s, new_min_index, new_max_index) ==
    set_range(shift_counts(s, s.offset + Div(get_length(s), 2) - new_min_index),
              new_min_index, new_max_index,
              s.offset + Div(get_length(s), 2) - new_min_index)

\* center_counts that sets the range and leaves the window where it is.
center_counts_unshifted(s, new_min_index, new_max_index) ==
    set_range(s, new_min_index, new_max_index, 0)

center_counts(s, new_min_index, new_max_index) ==
    LET diff == Sub32(new_max_index, new_min_index)
        span == Add32(diff, 1)
        middle_index == Add32(new_min_index, Div(span, 2))
        half == Add32(s.offset, Div(get_length(s), 2))
        shift == Sub32(half, middle_index)
    IN  set_range(shift_counts(overflow(s, \/ SubOvf(new_max_index, new_min_index)
                                           \/ AddOvf(diff, 1)
                                           \/ AddOvf(new_min_index, Div(span, 2))
                                           \/ AddOvf(s.offset, Div(get_length(s), 2))
                                           \/ SubOvf(half, middle_index)),
                               shift),
                  new_min_index, new_max_index, shift)

adjust(s, new_min_index, new_max_index) ==
    center_counts(s, new_min_index, new_max_index)

\* The window test with its first conjunct only.
fits_window_low_only(s, new_min_index, new_max_index) ==
    new_min_index >= s.offset

\* Whether [new_min_index, new_max_index] is inside the window, as the second
\* branch of extend_range tests it: the sum offset + length is only computed
\* when the first conjunct holds.
fits_window(s, new_min_index, new_max_index) ==
    /\ new_min_index >= s.offset
    /\ new_max_index < Add32(s.offset, get_length(s))

\* extend_range, first branch (the store is empty); new_length is what
\* get_new_length returned.
extend_empty(s, new_min_index, new_max_index, new_length) ==
    IF new_length.ovf /\ s.build = "debug" THEN overflow(s, TRUE)
    ELSE adjust([overflow(s, new_length.ovf) EXCEPT
                    !.counts = IF new_length.value >= get_length(s)
                               THEN resize(s.counts, new_length.value)
                               ELSE s.counts,
                    !.offset = new_min_index,
                    !.min_index = new_min_index,
                    !.max_index = new_max_index],
                new_min_index, new_max_index)

\* extend_range, last branch (the range does not fit in the window).
extend_grow(s, new_min_index, new_max_index, new_length) ==
    IF new_length.ovf /\ s.build = "debug" THEN overflow(s, TRUE)
    ELSE adjust([overflow(s, new_length.ovf) EXCEPT
                    !.counts = IF new_length.value > get_length(s)
                               THEN resize(s.counts, new_length.value)
                               ELSE s.counts],
                new_min_index, new_max_index)

\* extend_range after the two first statements, which merge the range.
extend_merged(s, new_min_index, new_max_index) ==
    IF is_empty(s)
    THEN extend_empty(s, new_min_index, new_max_index,
                      get_new_length(s, new_min_index, new_max_index))
    ELSE IF new_min_index >= s.offset /\ AddOvf(s.offset, get_length(s))
                                      /\ s.build = "debug"
    THEN overflow(s, TRUE)
    ELSE IF fits_window(s, new_min_index, new_max_index)
    THEN [overflow(s, /\ new_min_index >= s.offset
                      /\ AddOvf(s.offset, get_length(s)))
            EXCEPT !.min_index = new_min_index,
                   !.max_index = new_max_index]
    ELSE extend_grow(overflow(s, /\ new_min_index >= s.offset
                                 /\ AddOvf(s.offset, get_length(s))),
                     new_min_index, new_max_index,
                     get_new_length(s, new_min_index, new_max_index))

extend_range(s, new_min_index, new_max_index) ==
    extend_merged(s, Min2(new_min_index, s.min_index),
                     Max2(new_max_index, s.max_index))

\* normalize, last statement: index - self.offset, on the store t that the
\* first statement left.
normalize_pos(t, index) ==
    [self |-> IF t.panicked THEN t
              ELSE overflow(t, SubOvf(index, t.offset)),
     pos |-> Sub32(index, t.offset)]

\* normalize that extends the range on the low side only.
normalize_min_only(s, index) ==
    normalize_pos(IF index < s.min_index
                  THEN extend_range(s, index, index)
                  ELSE s,
                  index)

\* normalize(&mut self, index): the store after the call and the returned
\* position.
normalize(s, index) ==
    normalize_pos(IF index < s.min_index \/ index > s.max_index
                  THEN extend_range(s, index, index)
                  ELSE s,
                  index)

\* serde::i32_to_usize_exact: Ok for a non-negative value, Err otherwise.
i32_to_usize_exact_ok(v) == v >= 0

\* match array_index { Ok(index) => self.counts[index] += weight, _ => {} }
\* on the result n of normalize.
update_count(n, w) ==
    IF n.self.panicked THEN n.self
    ELSE IF ~i32_to_usize_exact_ok(n.pos) THEN n.self
    ELSE IF ~InBounds(n.self, n.pos) THEN [n.self EXCEPT !.panicked = TRUE]
    ELSE [n.self EXCEPT !.counts[n.pos + 1] = @ + w]

\* The body shared by add and add_bin after their guards: normalize, convert,
\* and on Ok  self.counts[index] += weight.
insert(s, index, w) == update_count(normalize(s, index), w)

\* add with the guard count < 0.0.
add_store_accepts_zero(s, index, count) ==
    IF count < 0 THEN s ELSE insert(s, index, count)

add_store(s, index, count) ==
    IF count <= 0 THEN s ELSE insert(s, index, count)

\* add_bin with the guard of add.
add_bin_store_add_guard(s, index, w) ==
    IF w <= 0 THEN s ELSE insert(s, index, w)

add_bin_store(s, index, w) ==
    IF w = 0 THEN s ELSE insert(s, index, w)

\* clear that leaves the counts in the buffer.
clear_store_keep_counts(s) ==
    [s EXCEPT !.max_index = I32_MIN,
              !.min_index = I32_MAX,
              !.offset = 0]

\* clear that leaves offset as it is.
clear_store_keep_offset(s) ==
    [s EXCEPT !.counts = [p \in 1 .. Len(s.counts) |-> 0],
              !.max_index = I32_MIN,
              !.min_index = I32_MAX]

clear_store(s) ==
    [s EXCEPT !.counts = [p \in 1 .. Len(s.counts) |-> 0],
              !.max_index = I32_MIN,
              !.min_index = I32_MAX,
              !.offset = 0]

\* ---------------------------------------------------------------- queries
\* A query's outcome: panicked (an indexing expression left the vector) and
\* the value it returns otherwise.

\* for array_index in lo..=hi { total_count += self.counts[array_index] }
RECURSIVE sum_range(_, _, _)
sum_range(s, lo, hi) ==
    IF hi < lo THEN [panicked |-> FALSE, value |-> 0]
    ELSE IF lo = hi
    THEN IF InBounds(s, lo) THEN [panicked |-> FALSE, value |-> s.counts[lo + 1]]
         ELSE [panicked |-> TRUE, value |-> 0]
    ELSE LET mid == lo + (hi - lo) \div 2
             lower == sum_range(s, lo, mid)
             upper == sum_range(s, mid + 1, hi)
         IN  IF lower.panicked THEN lower
             ELSE [panicked |-> upper.panicked,
                   value |-> lower.value + upper.value]

\* get_total_count_with_range with an exclusive upper end.
get_total_count_with_range_short(s, from_index, to_index) ==
    IF is_empty(s) THEN [panicked |-> FALSE, value |-> 0]
    ELSE LET from_array_index == Max2(from_index - s.offset, 0)
             to_array_index == Min2(to_index - s.offset, get_length(s) - 1)
         IN  sum_range(s, from_array_index, to_array_index - 1)

get_total_count_with_range(s, from_index, to_index) ==
    IF is_empty(s) THEN [panicked |-> FALSE, value |-> 0]
    ELSE LET from_array_index == Max2(from_index - s.offset, 0)
             to_array_index == Min2(to_index - s.offset, get_length(s) - 1) + 1
         IN  sum_range(s, from_array_index, to_array_index - 1)

get_total_count(s) == get_total_count_with_range(s, s.min_index, s.max_index)

get_min_index(s) == s.min_index
get_max_index(s) == s.max_index
get_offset(s) == s.offset

\* The stream's test written as in foreach (value != 0.0).
push_bin_nonzero(bins, index, value) ==
    IF value # 0 THEN Append(bins, <<index, value>>) ELSE bins

\* if value > 0.0 { bins.push((index, value)) }
push_bin(bins, index, value) ==
    IF value > 0 THEN Append(bins, <<index, value>>) ELSE bins

\* The loop body shared by the two streams, for index = hi, hi - 1, ..., lo:
\*   let value = self.counts[(index - self.offset) as usize]; push; index -= 1
RECURSIVE scan_down(_, _, _, _)
scan_down(s, bins, lo, hi) ==
    IF hi < lo THEN [panicked |-> FALSE, bins |-> bins]
    ELSE IF lo = hi
    THEN IF InBounds(s, lo - s.offset)
         THEN [panicked |-> FALSE,
               bins |-> push_bin(bins, lo, s.counts[lo - s.offset + 1])]
         ELSE [panicked |-> TRUE, bins |-> bins]
    ELSE LET mid == lo + (hi - lo) \div 2
             upper == scan_down(s, bins, mid + 1, hi)
         IN  IF upper.panicked THEN upper
             ELSE scan_down(s, upper.bins, lo, mid)

\* index runs from max_index down while index >= min_index.
get_descending_stream(s) ==
    scan_down(s, << >>, s.min_index, s.max_index)

\* index starts at min_index, the loop runs while index <= max_index, and its
\* last statement is index -= 1 (line 228): on a non-empty store the condition
\* stays true, so the iterations go on downward, index = min_index,
\* min_index - 1, ..., and end at the first index whose position is outside
\* the vector, offset - 1 at the latest.
get_ascending_stream(s) ==
    IF s.min_index > s.max_index THEN [panicked |-> FALSE, bins |-> << >>]
    ELSE scan_down(s, << >>, Min2(s.offset - 1, s.min_index), s.min_index)

\* if value != 0.0 { acceptor(i, value) }
visit(visits, i, value) ==
    IF value # 0 THEN Append(visits, <<i, value>>) ELSE visits

\* for i in lo..=hi { let value = self.counts[(i - self.offset) as usize]; ... }
RECURSIVE scan_up(_, _, _, _)
scan_up(s, visits, lo, hi) ==
    IF hi < lo THEN [panicked |-> FALSE, visits |-> visits]
    ELSE IF lo = hi
    THEN IF InBounds(s, lo - s.offset)
         THEN [panicked |-> FALSE,
               visits |-> visit(visits, lo, s.counts[lo - s.offset + 1])]
         ELSE [panicked |-> TRUE, visits |-> visits]
    ELSE LET mid == lo + (hi - lo) \div 2
             lower == scan_up(s, visits, lo, mid)
         IN  IF lower.panicked THEN lower
             ELSE scan_up(s, lower.visits, mid + 1, hi)

\* foreach without the statement after the loop.
foreach_without_last(s) ==
    IF is_empty(s) THEN [panicked |-> FALSE, visits |-> << >>]
    ELSE scan_up(s, << >>, s.min_index, s.max_index - 1)

\* The calls of the acceptor, in order: min_index .. max_index - 1 in the
\* for loop, then max_index.
foreach(s) ==
    IF is_empty(s) THEN [panicked |-> FALSE, visits |-> << >>]
    ELSE LET body == scan_up(s, << >>, s.min_index, s.max_index - 1)
         IN  IF body.panicked THEN body
             ELSE scan_up(s, body.visits, s.max_index, s.max_index)

\* ---------------------------------------------------------------- actions
\* UnboundedSizeDenseStore::new()
Fresh == [counts |-> << >>, offset |-> 0, min_index |-> I32_MAX,
          max_index |-> I32_MIN, panicked |-> FALSE, overflowed |-> FALSE,
          build |-> "any", centered |-> << >>]

\* The state after new().  buckets are the indices the callers will use; with
\* pair, a second store (twin) is constructed at every new() and clear and
\* receives the same calls.
New(buckets, pair) ==
    /\ counts = Fresh.counts
    /\ offset = Fresh.offset
    /\ min_index = Fresh.min_index
    /\ max_index = Fresh.max_index
    /\ panicked = FALSE
    /\ overflowed = FALSE
    /\ build = "any"
    /\ centered = << >>
    /\ added = [i \in buckets |-> 0]
    /\ seen = {}
    /\ onlyAdds = TRUE
    /\ everInserted = FALSE
    /\ lastOp = [op |-> "new", w |-> 0]
    /\ paired = pair
    /\ twin = Fresh

Init == New(Indices, FALSE)

\* Sum over the buckets of |net weight inserted since the last clear|.
RECURSIVE SumAbs(_, _)
SumAbs(f, S) ==
    IF S = {} THEN 0
    ELSE LET x == CHOOSE y \in S : TRUE
         IN  Abs(f[x]) + SumAbs(f, S \ {x})

SetStore(t) ==
    /\ counts' = t.counts
    /\ offset' = t.offset
    /\ min_index' = t.min_index
    /\ max_index' = t.max_index
    /\ panicked' = t.panicked
    /\ overflowed' = t.overflowed
    /\ build' = t.build
    /\ centered' = t.centered

\* The store at the start of a call in a build that checks overflow.
Checked == [Self EXCEPT !.build = "debug"]

\* The outcomes of one call on the store, given its result r in the build
\* of Self and its result c in a build that checks overflow.  What the build
\* does on overflow is not known before the first overflow (build = "any");
\* a call that overflows then has both outcomes, and the one taken is the
\* build's from then on.
Outcomes(r, c) ==
    IF build = "any" /\ r.overflowed
    THEN {[r EXCEPT !.build = "release"], c}
    ELSE {r}

\* History: centered holds the shift of the last operation's centering, if it
\* centered; added[i] is the sum of the weights the store was asked to add to
\* bucket i since the last clear (calls the guards of add / add_bin ignore
\* excluded), seen the buckets of those calls, onlyAdds whether every call
\* since new() was an add, everInserted whether some call was not ignored;
\* twin, when paired, is the store a new() at the last clear would have become.
add(index, count) ==
    /\ ~panicked
    /\ count > 0 => SumAbs(added, DOMAIN added) + count <= MaxTotal
    /\ \E t \in Outcomes(add_store(Self, index, count),
                        add_store(Checked, index, count)) : SetStore(t)
    /\ twin' = IF paired THEN add_store(twin, index, count) ELSE twin
    /\ added' = IF count > 0 THEN [added EXCEPT ![index] = @ + count] ELSE added
    /\ seen' = IF count > 0 THEN seen \cup {index} ELSE seen
    /\ everInserted' = (everInserted \/ count > 0)
    /\ lastOp' = [op |-> "add", w |-> count]
    /\ UNCHANGED <<onlyAdds, paired>>

add_bin(index, w) ==
    /\ ~panicked
    /\ SumAbs(added, DOMAIN added) + Abs(w) <= MaxTotal
    /\ \E t \in Outcomes(add_bin_store(Self, index, w),
                        add_bin_store(Checked, index, w)) : SetStore(t)
    /\ twin' = IF paired THEN add_bin_store(twin, index, w) ELSE twin
    /\ added' = [added EXCEPT ![index] = @ + w]
    /\ seen' = IF w # 0 THEN seen \cup {index} ELSE seen
    /\ everInserted' = (everInserted \/ w # 0)
    /\ onlyAdds' = FALSE
    /\ lastOp' = [op |-> "add_bin", w |-> w]
    /\ UNCHANGED paired

clear ==
    /\ ~panicked
    /\ \E t \in Outcomes(clear_store(Self), clear_store(Checked)) : SetStore(t)
    /\ twin' = Fresh
    /\ added' = [i \in DOMAIN added |-> 0]
    /\ seen' = {}
    /\ onlyAdds' = FALSE
    /\ lastOp' = [op |-> "clear", w |-> 0]
    /\ UNCHANGED <<everInserted, paired>>

Next ==
    \/ \E index \in Indices, count \in Weights : add(index, count)
    \/ \E index \in Indices, w \in Weights : add_bin(index, w)
    \/ clear

Spec == Init /\ [][Next]_vars

\* The same calls on a store that is paired with a twin: the twin is a new
\* store at every clear, the store itself keeps its buffer.
ReuseIndices == {5, 12, 100}
ReuseWeights == {-1, 1}

InitReuse == New(ReuseIndices, TRUE)

NextReuse ==
    \/ \E index \in ReuseIndices, count \in ReuseWeights : add(index, count)
    \/ \E index \in ReuseIndices, w \in ReuseWeights : add_bin(index, w)
    \/ clear

SpecReuse == InitReuse /\ [][NextReuse]_vars

\* Callers that use bucket indices at and near both ends of the i32 range
\* and around 0.  The distance between two indices of different groups is at
\* least 2^31 - 33, too long for a buffer whose length is an i32.
WideIndices == {I32_MIN, I32_MIN + 31, I32_MIN + 32, 0,
                I32_MAX - 32, I32_MAX - 31, I32_MAX}
WideWeights == {1, 2}

InitWide == New(WideIndices, FALSE)

NextWide ==
    \/ \E index \in WideIndices, count \in WideWeights : add(index, count)
    \/ clear

SpecWide == InitWide /\ [][NextWide]_vars

\* ------------------------------------------------------------- properties
\* The count the store holds for bucket index i: the buffer element at
\* position i - offset, and 0 for an index outside the window.
CountOf(s, i) ==
    IF InBounds(s, i - s.offset) THEN s.counts[i - s.offset + 1] ELSE 0

\* What the callers asked the store to hold for bucket index i.
AddedTo(i) == IF i \in DOMAIN added THEN added[i] ELSE 0

RECURSIVE SumOf(_, _)
SumOf(f, S) ==
    IF S = {} THEN 0
    ELSE LET x == CHOOSE y \in S : TRUE
         IN  f[x] + SumOf(f, S \ {x})

MinOf(S) == CHOOSE x \in S : \A y \in S : x <= y
MaxOf(S) == CHOOSE x \in S : \A y \in S : x >= y

Reverse(q) == [k \in 1 .. Len(q) |-> q[Len(q) + 1 - k]]

StrictlyIncreasing(q) == \A k \in 1 .. Len(q) - 1 : q[k][1] < q[k + 1][1]
StrictlyDecreasing(q) == \A k \in 1 .. Len(q) - 1 : q[k][1] > q[k + 1][1]

\* C1: after any sequence of add, add_bin and clear, every position of the
\* buffer holds the sum of the weights added to its bucket index since the
\* last clear (0 for an index never added), and every bucket that was added
\* to is inside the window: growth and shifts lose or move no count.
C1_CountsPreserved ==
    /\ ~panicked
    /\ \A p \in 1 .. Len(counts) : counts[p] = AddedTo(offset + p - 1)
    /\ \A i \in seen : InBounds(Self, i - offset)

\* C1 witness: the buffer grew twice (64, 128, 192 positions) and holds
\* counts on both far sides and in the middle.
C1_Witness ==
    /\ Len(counts) = 192
    /\ added[-45] # 0 /\ added[5] # 0 /\ added[100] # 0

\* C2: on a store that has only seen add calls since new(), get_total_count()
\* is the sum of the positive counts passed.
C2_TotalIsSumOfAdds ==
    onlyAdds =>
        get_total_count(Self) = [panicked |-> FALSE, value |-> SumOf(added, Indices)]

\* C2 witness: only adds, a sum of 4 over three buckets, after growth.
C2_Witness ==
    /\ onlyAdds
    /\ Len(counts) > 64
    /\ Cardinality(seen) = 3
    /\ SumOf(added, Indices) = 4

\* C3: the store is empty exactly until the first insertion after new() or
\* clear(); from then on get_min_index() and get_max_index() are the least and
\* the greatest bucket index inserted since.
C3_MinMaxAreExtremes ==
    /\ seen = {} => is_empty(Self)
    /\ seen # {} => /\ ~is_empty(Self)
                    /\ get_min_index(Self) = MinOf(seen)
                    /\ get_max_index(Self) = MaxOf(seen)

\* C3 witness: adds only, to three buckets, the last one strictly inside.
C3_Witness ==
    /\ onlyAdds
    /\ lastOp.op = "add"
    /\ seen = {-45, 12, 100}
    /\ added[12] = 1 /\ added[-45] = 2

\* C4 (as claimed): get_ascending_stream() returns, in strictly increasing
\* index order, the exact reverse of get_descending_stream(), without the
\* zero-count buckets.
C4_AscendingIsReverseOfDescending ==
    LET asc == get_ascending_stream(Self)
        desc == get_descending_stream(Self)
    IN  /\ ~asc.panicked
        /\ ~desc.panicked
        /\ asc.bins = Reverse(desc.bins)
        /\ StrictlyIncreasing(asc.bins)
        /\ \A k \in 1 .. Len(asc.bins) : asc.bins[k][2] # 0

\* C5: get_descending_stream() returns exactly the pairs (i, count of i) for
\* the indices i of min_index .. max_index with a strictly positive count,
\* each once, in strictly decreasing index order; nothing on an empty store.
C5_DescendingStream ==
    LET r == get_descending_stream(Self)
    IN  /\ ~r.panicked
        /\ \A k \in 1 .. Len(r.bins) :
              /\ r.bins[k][1] \in min_index .. max_index
              /\ r.bins[k][2] = CountOf(Self, r.bins[k][1])
              /\ r.bins[k][2] > 0
        /\ StrictlyDecreasing(r.bins)
        /\ \A i \in min_index .. max_index :
              CountOf(Self, i) > 0 => \E k \in 1 .. Len(r.bins) : r.bins[k][1] = i
        /\ is_empty(Self) => r.bins = << >>

\* C5 witness: a range holding a negative, a zero and two positive counts.
C5_Witness ==
    /\ \E i \in seen : CountOf(Self, i) < 0
    /\ \E i \in seen : CountOf(Self, i) = 0
    /\ Len(get_descending_stream(Self).bins) = 2

\* C6: right after clear() the queries answer as on a new store: empty,
\* min = i32::MAX, max = i32::MIN, offset 0, total 0, empty streams, no visit.
C6_ClearedLikeFresh ==
    lastOp.op = "clear" =>
        /\ is_empty(Self) /\ is_empty(Fresh)
        /\ get_min_index(Self) = I32_MAX /\ get_min_index(Fresh) = I32_MAX
        /\ get_max_index(Self) = I32_MIN /\ get_max_index(Fresh) = I32_MIN
        /\ get_offset(Self) = 0 /\ get_offset(Fresh) = 0
        /\ get_total_count(Self) = [panicked |-> FALSE, value |-> 0]
        /\ get_total_count(Self) = get_total_count(Fresh)
        /\ get_ascending_stream(Self) = [panicked |-> FALSE, bins |-> << >>]
        /\ get_ascending_stream(Self) = get_ascending_stream(Fresh)
        /\ get_descending_stream(Self) = [panicked |-> FALSE, bins |-> << >>]
        /\ get_descending_stream(Self) = get_descending_stream(Fresh)
        /\ foreach(Self) = [panicked |-> FALSE, visits |-> << >>]
        /\ foreach(Self) = foreach(Fresh)

\* C6 witness: a clear of a store that had grown to 192 positions.
C6_Witness ==
    /\ lastOp.op = "clear"
    /\ Len(counts) = 192

\* C7: no step shortens the buffer, clear leaves its length unchanged, and
\* once an insertion took effect the length is a positive multiple of 64.
C7_LengthMonotone ==
    [][/\ Len(counts') >= Len(counts)
       /\ lastOp'.op = "clear" => Len(counts') = Len(counts)
       /\ everInserted' =>
             /\ Len(counts') > 0
             /\ Len(counts') % array_length_growth_increment = 0]_vars

\* C7 witness: a buffer of 128 positions, kept by a clear and used again.
C7_Witness ==
    /\ Len(counts) = 128
    /\ ~onlyAdds
    /\ lastOp.op = "add"
    /\ lastOp.w > 0
    /\ Cardinality(seen) = 1

\* C8: add(index, count) with count <= 0 changes nothing of the store.
C8_AddNonPositiveIsNoOp ==
    [][(lastOp'.op = "add" /\ lastOp'.w <= 0) =>
          UNCHANGED <<counts, offset, min_index, max_index, panicked>>]_vars

\* C8 witness: add with a negative count was called on the new, unallocated
\* store.
C8_Witness ==
    /\ lastOp.op = "add"
    /\ lastOp.w < 0
    /\ Len(counts) = 0

\* C9: add_bin((index, w)) changes nothing when w = 0; when w # 0, negative w
\* included, it changes the store, the range afterwards includes index and the
\* count of index has changed by w (on an empty store min = max = index);
\* add with a negative count changes nothing.
C9_AddBinSigned ==
    [][/\ (lastOp'.op = "add_bin" /\ lastOp'.w = 0) =>
             UNCHANGED <<counts, offset, min_index, max_index, panicked>>
       /\ (lastOp'.op = "add_bin" /\ lastOp'.w # 0) =>
             \E i \in Indices :
                /\ added' = [added EXCEPT ![i] = @ + lastOp'.w]
                /\ <<counts, offset, min_index, max_index>>'
                      # <<counts, offset, min_index, max_index>>
                /\ min_index' <= i /\ i <= max_index'
                /\ CountOf(Self', i) = CountOf(Self, i) + lastOp'.w
                /\ is_empty(Self) => (min_index' = i /\ max_index' = i)
       /\ (lastOp'.op = "add" /\ lastOp'.w < 0) =>
             UNCHANGED <<counts, offset, min_index, max_index, panicked>>]_vars

\* C9 witness: add_bin((12, -2)) on an empty store.
C9_Witness ==
    /\ lastOp = [op |-> "add_bin", w |-> -2]
    /\ min_index = 12 /\ max_index = 12
    /\ CountOf(Self, 12) = -2
    /\ seen = {12}

\* C10: foreach calls the acceptor with (i, count of i) once for every index
\* i of min_index .. max_index whose count is not 0, negative counts included,
\* in strictly ascending order, and not at all on an empty store.
C10_Foreach ==
    LET r == foreach(Self)
    IN  /\ ~r.panicked
        /\ \A k \in 1 .. Len(r.visits) :
              /\ r.visits[k][1] \in min_index .. max_index
              /\ r.visits[k][2] = CountOf(Self, r.visits[k][1])
              /\ r.visits[k][2] # 0
        /\ StrictlyIncreasing(r.visits)
        /\ \A i \in min_index .. max_index :
              CountOf(Self, i) # 0 => \E k \in 1 .. Len(r.visits) : r.visits[k][1] = i
        /\ is_empty(Self) => r.visits = << >>

\* C10 witness: a negative count at max_index, a zero count inside the range,
\* and three visits.
C10_Witness ==
    /\ ~is_empty(Self)
    /\ CountOf(Self, max_index) < 0
    /\ \E i \in seen : CountOf(Self, i) = 0
    /\ Len(foreach(Self).visits) = 3

\* C11 (as claimed): on every reachable state each of get_total_count,
\* get_descending_stream, get_ascending_stream and foreach runs to its end
\* reading only positions inside the buffer.
C11_QueriesStayInBounds ==
    /\ ~get_total_count(Self).panicked
    /\ ~get_descending_stream(Self).panicked
    /\ ~get_ascending_stream(Self).panicked
    /\ ~foreach(Self).panicked

\* C13: while the store is not empty, min_index <= max_index, the window
\* starts at or below min_index and ends above max_index:
\* offset <= min_index and max_index < offset + length.
C13_RangeInWindow ==
    ~is_empty(Self) =>
        /\ min_index <= max_index
        /\ offset <= min_index
        /\ max_index < offset + get_length(Self)

\* C13 witness: a store whose last operation re-centered a range of several
\* buckets, so that the window was moved and the range is strictly inside it.
C13_Witness ==
    /\ ~is_empty(Self)
    /\ min_index < max_index
    /\ centered # << >>
    /\ Cardinality(seen) >= 2
    /\ offset < min_index

\* C14: every buffer position whose bucket index offset + position lies
\* outside [min_index, max_index] holds 0 (all of them when the store is
\* empty).
C14_ZeroOutsideRange ==
    \A p \in 1 .. Len(counts) :
        (offset + p - 1) \notin min_index .. max_index => counts[p] = 0

\* C14 witness: the last operation centered a slice of one bucket by a shift
\* longer than the slice, and the store holds non-zero counts in two buckets.
C14_Witness ==
    /\ Len(centered) = 1
    /\ Abs(centered[1]) > 1
    /\ Cardinality(seen) = 2
    /\ \A i \in seen : CountOf(Self, i) # 0
    /\ lastOp.op # "clear"

\* C15: no add or add_bin that ran was aborted by an access outside the
\* buffer, and on every reachable state normalize(index) runs without such an
\* access and returns a position p with 0 <= p < length, for which the
\* conversion succeeds, so that the insertion is not dropped.
C15_AccessesInBounds ==
    /\ ~panicked
    /\ \A index \in DOMAIN added :
          LET n == normalize(Self, index)
          IN  /\ ~n.self.panicked
              /\ i32_to_usize_exact_ok(n.pos)
              /\ InBounds(n.self, n.pos)
              /\ n.pos < get_length(n.self)

\* C15 witness: an add_bin that grew the buffer to 192 positions, copied the
\* live slice, zero-filled behind it and updated the count of a new extreme.
C15_Witness ==
    /\ lastOp.op = "add_bin"
    /\ centered # << >>
    /\ Len(counts) = 192
    /\ min_index = -45 /\ max_index = 100
    /\ CountOf(Self, -45) # 0 /\ CountOf(Self, 100) # 0
    /\ ~panicked

\* The smallest multiple of d that is at least x.
CeilTo(x, d) == ((x + d - 1) \div d) * d

\* C16: an insertion of index i that takes effect on an empty store, or whose
\* merged range [newMin, newMax] is not inside the window, leaves the length
\* max(previous length, ceil((newMax - newMin + 1 + 6) / 64) * 64); one whose
\* merged range is inside the window of a non-empty store leaves length and
\* offset unchanged.
C16_LengthAfterInsertion ==
    [][\A i \in DOMAIN added :
          (lastOp'.op # "clear" /\ added'[i] # added[i]) =>
             LET newMin == Min2(i, min_index)
                 newMax == Max2(i, max_index)
                 inWindow == /\ offset <= newMin
                             /\ newMax < offset + Len(counts)
             IN  IF is_empty(Self) \/ ~inWindow
                 THEN Len(counts') =
                         Max2(Len(counts),
                              CeilTo(newMax - newMin + 1 + array_length_overhead,
                                     array_length_growth_increment))
                 ELSE /\ Len(counts') = Len(counts)
                      /\ offset' = offset]_vars

\* C16 witness: the range [-45, 12] of 58 buckets, for which
\* 58 + 6 is exactly one increment, reached by an insertion that did not fit
\* in the window and kept the length 64.
C16_Witness ==
    /\ min_index = -45 /\ max_index = 12
    /\ Len(counts) = 64
    /\ centered # << >>
    /\ Cardinality(seen) = 2

\* C17: right after an operation that centered, the free positions below
\* min_index (min_index - offset) and above max_index
\* (offset + length - 1 - max_index) differ by at most 1 and are at least 3
\* each, and inserting min_index - 1 or max_index + 1 next does not center.
C17_CenteredInTheMiddle ==
    centered # << >> =>
        LET below == min_index - offset
            above == offset + Len(counts) - 1 - max_index
        IN  /\ Abs(below - above) <= 1
            /\ below >= 3
            /\ above >= 3
            /\ normalize(Self, min_index - 1).self.centered = << >>
            /\ normalize(Self, max_index + 1).self.centered = << >>
            /\ normalize(Self, min_index - 1).self.min_index = min_index - 1
            /\ normalize(Self, max_index + 1).self.max_index = max_index + 1

\* C17 witness: a centering from the grow/shift branch that left exactly 3
\* free positions on each side (range [-45, 12] in 64 positions).
C17_Witness ==
    /\ centered # << >>
    /\ Cardinality(seen) >= 2
    /\ min_index - offset = 3
    /\ offset + Len(counts) - 1 - max_index = 3

\* What the callers can observe of the content of a store.
LogicalView(s) ==
    [min_index |-> get_min_index(s),
     max_index |-> get_max_index(s),
     counts |-> [i \in DOMAIN added |-> CountOf(s, i)],
     total |-> get_total_count(s),
     descending |-> get_descending_stream(s)]

\* C19: a store that was used and cleared, and a store constructed at the
\* time of that clear, that then receive the same add / add_bin calls have
\* the same min_index, max_index, count for every bucket index, total count
\* and descending stream.
C19_ReuseLikeFresh ==
    paired => LogicalView(Self) = LogicalView(twin)

\* C19 witness: after the same calls the reused store has a longer buffer
\* and another offset than the twin, and both hold two buckets.
C19_Witness ==
    /\ paired
    /\ Cardinality(seen) = 2
    /\ \A i \in seen : CountOf(twin, i) # 0
    /\ Len(counts) > Len(twin.counts)
    /\ offset # twin.offset

\* The bucket indices that received a positive total.
Support == {i \in DOMAIN added : added[i] > 0}

\* C20: on a store that only received add calls since new(), min_index,
\* max_index and the count of every bucket index are determined by the
\* multiset of the calls (the total added per index), whatever their order:
\* the extremes of the indices added and, per index, the total added.
C20_OrderIndependent ==
    (onlyAdds /\ Support # {}) =>
        /\ get_min_index(Self) = MinOf(Support)
        /\ get_max_index(Self) = MaxOf(Support)
        /\ \A i \in DOMAIN added : CountOf(Self, i) = added[i]
        /\ \A i \in (MinOf(Support) - 1) .. (MaxOf(Support) + 1) :
              i \notin DOMAIN added => CountOf(Self, i) = 0

\* C20 witness: 5 and 12 were added, in an order that gave another offset
\* than adding first 5 and then 12 gives.
C20_Witness ==
    /\ onlyAdds
    /\ Support = {5, 12}
    /\ offset # add_store(add_store(Fresh, 5, added[5]), 12, added[12]).offset
    /\ CountOf(Self, 5) = added[5] /\ CountOf(Self, 12) = added[12]

\* C18 (as claimed): add(index, c) with c > 0 on an empty store, for any
\* i32 index, computes without i32 overflow, does not panic, and leaves
\* min_index = max_index = index with c stored at position index - offset
\* inside the buffer.
C18_AddOnEmptyAnyIndex ==
    [][\A index \in DOMAIN added :
          (/\ is_empty(Self)
           /\ lastOp'.op = "add"
           /\ lastOp'.w > 0
           /\ added'[index] # added[index]) =>
             /\ ~overflowed'
             /\ ~panicked'
             /\ min_index' = index
             /\ max_index' = index
             /\ InBounds(Self', index - offset')
             /\ counts'[index - offset' + 1] = lastOp'.w]_vars

====
